---- MODULE Spec2Model ----
(***************************************************************************)
(* LowPowerClock (src/src/main.cpp): an ESP8266 that deep-sleeps between   *)
(* minute boundaries, keeps its clock state in RTC memory, re-anchors on   *)
(* NTP now and then and calibrates the drift of the sleep timer.           *)
(*                                                                         *)
(* One wake cycle is: reset -> setup() -> loop() ... -> ESP.deepSleep().   *)
(* setup() ends in setSyncProvider(LPgetNtpTime), which (TimeLib) calls    *)
(* now() and so LPgetNtpTime() at once. loop() does nothing while          *)
(* timeStatus() is timeNotSet; TimeLib's now() asks the provider again     *)
(* syncInterval seconds after a failed query.                              *)
(*                                                                         *)
(* Times are seconds since 1970 (time_t), driftPerMinute is microseconds.  *)
(* The decoding of the 48-byte NTP packet (lines 244-250) is abstracted:   *)
(* a reply carries the decoded ntpTime. connect_to_wifi() is taken to      *)
(* return; the time it takes is part of the millis() reading.              *)
(***************************************************************************)
EXTENDS Integers, FiniteSets, Sequences, TLC

VARIABLES
    pc,            \* "off" | "awake" | "asleep" | "fault" (exception raised)
    resetReason,   \* what ESP.getResetReason() reported at the last boot
    rtc,           \* the rtcStore held in RTC memory (survives deep sleep)
    rtcMem,        \* the global rtcStore rtcMem in RAM
    sysTime,       \* TimeLib: seconds counter returned by now()
    nextSyncTime,  \* TimeLib: when now() calls the sync provider again
    Status,        \* TimeLib: timeNotSet | timeNeedsSync | timeSet
    sleepReq,      \* arguments of the last ESP.deepSleep() call, and how they were computed
    wake,          \* history: rtcMem as setup() left it, before the first time query
    query,         \* history: the last call of LPgetNtpTime in this wake: how many
                   \* calls so far, the reply, rtcMem before it, the value returned
    hist,          \* history: counts of what the cycles did (see NoHistory)
    world          \* the surroundings of a device on a test bench: how long it stays
                   \* awake, how its sleep timer runs, and the true time (see NoWorld)

vars == <<pc, resetReason, rtc, rtcMem, sysTime, nextSyncTime, Status,
          sleepReq, wake, query, hist, world>>

----------------------------------------------------------------------------
(* Bounds of the model *)

\* warm wakes explored after a cold start
MaxIter == 23
\* seconds the display refresh may take (README: about 2 s)
MaxDisplaySecs == 2
\* failed queries retried within one wake
MaxRetries == 1
\* warm wakes of a run on the test bench (four re-anchors at the long interval)
MaxRun == 1460

----------------------------------------------------------------------------
(* Program constants *)

NTP_PACKET_SIZE == 48
ShortInterval == 600
LongInterval == 28800
ShortIterations == 12
\* TimeLib's default syncInterval, in force after setSyncProvider()
syncInterval == 300

ResetReasons == {"Deep-Sleep Wake", "External System"}

\* typedef enum {NTP=0, Estimate=1} Sync
Sync == {"NTP", "Estimate"}

\* typedef struct {...} rtcStore, zero-initialised as a global
rtcStore0 ==
    [wakeTime |-> 0, lastNTP |-> 0, syncType |-> "NTP", iterations |-> 0,
     driftPerMinute |-> 0]

\* a re-anchor interval that is long from the first cycle on
NTP_INTERVAL_AlwaysLong(mem) == LongInterval

\* #define NTP_INTERVAL (rtcMem.iterations<12 ? 600 : 28800)
NTP_INTERVAL(mem) ==
    IF mem.iterations < ShortIterations THEN ShortInterval ELSE LongInterval

----------------------------------------------------------------------------
(* Inputs of the environment *)

\* millis() when the reply is read (line 257), counted from the query's start
QueryMillis == {200, 975}

\* seconds by which the NTP time is ahead of the device's own time
SkewSecs == {-1, 0, 5}

\* NTP times answered after a cold start (wakeTime = 0)
ColdTimes == {1700000000, 1700000002, 1700000038}

\* what an integer division by zero (line 262) may do: raise an exception
\* (what the ESP8266 division routine does), or yield some quotient
Trap == [trap |-> TRUE, q |-> 0]

DivByZero == {Trap, [trap |-> FALSE, q |-> 0], [trap |-> FALSE, q |-> -1]}

\* A reply to the NTP request: the size Udp.parsePacket() reports for the best
\* packet of the wait window, the time it carries, millis() when it is read,
\* and dz, the outcome of a division by zero should the code perform one.
Reply(size, ntpTime, millis, dz) ==
    [size |-> size, ntpTime |-> ntpTime, millis |-> millis, dz |-> dz]

\* nothing is received
Silence == Reply(0, 0, 0, Trap)

\* no packet, or one that is too short
NoReplies == {Silence, Reply(NTP_PACKET_SIZE - 1, 0, 0, Trap)}

\* The replies of a time server that is about right, t seconds after the boot
\* of a device that woke with the clock state mem.
Replies(mem, t) ==
    IF mem.syncType = "Estimate"
    THEN {Silence}
    ELSE NoReplies \cup
         {Reply(NTP_PACKET_SIZE, ntpTime, t * 1000 + millis, Trap) :
            ntpTime \in (IF mem.wakeTime = 0
                         THEN ColdTimes
                         ELSE {mem.wakeTime + t + e : e \in SkewSecs}),
            millis \in QueryMillis}

\* seconds counted by now() while the display is refreshed (lines 119-124)
DisplaySecs == 0..MaxDisplaySecs

\* whether now() counts one more second between two adjacent calls
Ticks == {0, 1}

----------------------------------------------------------------------------
(* Arithmetic of the C++ build *)

Abs(x) == IF x < 0 THEN -x ELSE x

\* C++ integer division truncates toward zero (b # 0)
CDiv(a, b) ==
    IF (a >= 0) = (b > 0) THEN Abs(a) \div Abs(b) ELSE -(Abs(a) \div Abs(b))

\* second(t) of TimeLib: the seconds field of a UTC time
second(t) == t % 60

\* a drift update that replaces the running correction instead of adding to it
DriftUpdate_Replacing(mem, ntpTime, millis) ==
    LET drift == ((ntpTime - mem.wakeTime) * 1000) - millis
    IN  1000 * CDiv(60 * drift, ntpTime - mem.lastNTP)

\* a drift update that divides by the interval before it multiplies by 60
DriftUpdate_DivideFirst(mem, ntpTime, millis) ==
    LET drift == ((ntpTime - mem.wakeTime) * 1000) - millis
    IN  mem.driftPerMinute + 1000 * (60 * CDiv(drift, ntpTime - mem.lastNTP))

\* lines 256-262: the new driftPerMinute, for interval # 0
DriftUpdate(mem, ntpTime, millis) ==
    LET drift0 == ntpTime - mem.wakeTime
        drift == (drift0 * 1000) - millis
        interval == ntpTime - mem.lastNTP
    IN  mem.driftPerMinute + 1000 * CDiv(60 * drift, interval)

\* a reply after a previous anchor that runs the drift update twice
NtpQuery_RepeatsUpdate(mem, r) ==
    IF r.size >= NTP_PACKET_SIZE
    THEN [mem |-> [mem EXCEPT
                    !.driftPerMinute =
                        IF mem.lastNTP > 0
                        THEN DriftUpdate([mem EXCEPT !.driftPerMinute =
                                             DriftUpdate(mem, r.ntpTime, r.millis)],
                                         r.ntpTime, r.millis)
                        ELSE @,
                    !.lastNTP = r.ntpTime],
          ret |-> r.ntpTime, trap |-> FALSE]
    ELSE [mem |-> mem, ret |-> 0, trap |-> FALSE]

\* a reply after a previous anchor that updates the drift and keeps the old anchor
NtpQuery_KeepsAnchor(mem, r) ==
    IF r.size >= NTP_PACKET_SIZE
    THEN [mem |-> [mem EXCEPT
                    !.driftPerMinute =
                        IF mem.lastNTP > 0
                        THEN DriftUpdate(mem, r.ntpTime, r.millis) ELSE @,
                    !.lastNTP = IF mem.lastNTP > 0 THEN @ ELSE r.ntpTime],
          ret |-> r.ntpTime, trap |-> FALSE]
    ELSE [mem |-> mem, ret |-> 0, trap |-> FALSE]

\* lines 224-271: the NTP request of LPgetNtpTime(), given the reply r.
\* Yields the rtcMem it leaves, the value returned and whether it trapped.
NtpQuery(mem, r) ==
    IF r.size >= NTP_PACKET_SIZE
    THEN IF mem.lastNTP > 0
         THEN IF r.ntpTime - mem.lastNTP = 0
              THEN IF r.dz.trap
                   THEN [mem |-> mem, ret |-> 0, trap |-> TRUE]
                   ELSE [mem |-> [mem EXCEPT
                                   !.driftPerMinute = @ + 1000 * r.dz.q,
                                   !.lastNTP = r.ntpTime],
                         ret |-> r.ntpTime, trap |-> FALSE]
              ELSE [mem |-> [mem EXCEPT
                              !.driftPerMinute =
                                  DriftUpdate(mem, r.ntpTime, r.millis),
                              !.lastNTP = r.ntpTime],
                    ret |-> r.ntpTime, trap |-> FALSE]
         ELSE [mem |-> [mem EXCEPT !.lastNTP = r.ntpTime],
               ret |-> r.ntpTime, trap |-> FALSE]
    ELSE [mem |-> mem, ret |-> 0, trap |-> FALSE]

\* an estimate that also moves the anchor to the estimated time
LPgetNtpTime_EstimateAnchors(mem, r) ==
    IF mem.syncType = "Estimate"
    THEN [mem |-> [mem EXCEPT !.lastNTP = mem.wakeTime], ret |-> mem.wakeTime,
          trap |-> FALSE]
    ELSE NtpQuery(mem, r)

\* the guard of line 253 dropped: the seeding reply (wakeTime = lastNTP = 0)
\* runs the update too, which adds 1000 * ((60 * (ntpTime * 1000 - millis)) / ntpTime)
LPgetNtpTime_SeedCorrects(mem, r) ==
    IF mem.syncType = "Estimate"
    THEN [mem |-> mem, ret |-> mem.wakeTime, trap |-> FALSE]
    ELSE IF r.size >= NTP_PACKET_SIZE /\ mem.lastNTP = 0
         THEN [mem |-> [mem EXCEPT !.driftPerMinute = @ + 1000 * (60 * 1000 - 1),
                                   !.lastNTP = r.ntpTime],
               ret |-> r.ntpTime, trap |-> FALSE]
         ELSE NtpQuery(mem, r)

\* a timed-out request that answers with the estimate instead of 0
LPgetNtpTime_TimeoutEstimates(mem, r) ==
    IF mem.syncType = "Estimate" \/ r.size < NTP_PACKET_SIZE
    THEN [mem |-> mem, ret |-> mem.wakeTime, trap |-> FALSE]
    ELSE NtpQuery(mem, r)

\* time_t LPgetNtpTime(): the provider of TimeLib (lines 216-273)
LPgetNtpTime(mem, r) ==
    IF mem.syncType = "Estimate"
    THEN [mem |-> mem, ret |-> mem.wakeTime, trap |-> FALSE]
    ELSE NtpQuery(mem, r)

----------------------------------------------------------------------------
(* The state before the first boot *)

NoSleep == [sleepSeconds |-> 0, now124 |-> 0, micros |-> 0, wrap |-> 0,
            USeconds |-> 0, mode |-> "none"]

NoQuery == [n |-> 0, reply |-> Silence, pre |-> rtcStore0, ret |-> 0]

\* warm:      warm wakes since the last cold start
\* renders:   calls of digitalClockDisplay() in this wake
\* saves:     calls of writeToRTCMemory() in this wake
\* estimates: cycles in a row, up to this one, that woke with syncType = Estimate
\* gap:       in a cycle that woke with syncType = NTP, the estimate cycles in a
\*            row that came before it
\* anchors:   NTP replies accepted since the last cold start
NoHistory ==
    [warm |-> 0, renders |-> 0, saves |-> 0, estimates |-> 0, gap |-> 0,
     anchors |-> 0]

\* awake:  whole seconds a cycle stays awake after it has read the time
\* skew:   microseconds by which a sleep of one minute lasts longer than asked
\* millis: milliseconds from a wake to the NTP reply
\* secs, micros: the true time
\* Left at this value where the true time plays no part.
NoWorld == [awake |-> 0, skew |-> 0, millis |-> 0, secs |-> 0, micros |-> 0]

\* the device before power is applied
PoweredOff ==
    /\ pc = "off"
    /\ resetReason = "none"
    /\ rtc = rtcStore0
    /\ rtcMem = rtcStore0
    /\ sysTime = 0
    /\ nextSyncTime = 0
    /\ Status = "timeNotSet"
    /\ sleepReq = NoSleep
    /\ wake = rtcStore0
    /\ query = NoQuery
    /\ hist = NoHistory

Init == PoweredOff /\ world = NoWorld

----------------------------------------------------------------------------
(* TimeLib's now() when a sync is due: call the provider, setTime() on a    *)
(* non-zero answer, otherwise put the next attempt syncInterval later.      *)
(* t is sysTime as now() has just counted it, h the history so far.         *)

SyncNow(mem, t, st, n, reply, h) ==
    LET r == LPgetNtpTime(mem, reply)
    IN  /\ rtcMem' = r.mem
        /\ query' = [n |-> n, reply |-> reply, pre |-> mem, ret |-> r.ret]
        /\ hist' = [h EXCEPT !.anchors =
                        IF mem.syncType = "NTP" /\ r.ret # 0 THEN @ + 1 ELSE @]
        /\ IF r.trap
           THEN /\ pc' = "fault"
                /\ sysTime' = t
                /\ nextSyncTime' = t
                /\ Status' = st
           ELSE /\ pc' = "awake"
                /\ IF r.ret # 0
                   THEN /\ sysTime' = r.ret
                        /\ nextSyncTime' = r.ret + syncInterval
                        /\ Status' = "timeSet"
                   ELSE /\ sysTime' = t
                        /\ nextSyncTime' = t + syncInterval
                        /\ Status' = IF st = "timeNotSet"
                                     THEN "timeNotSet" ELSE "timeNeedsSync"

\* readFromRTCMemory(): system_rtc_mem_read() copies sizeof(rtcMem) bytes of
\* RTC memory over rtcMem (lines 298-304)
readFromRTCMemory(store) == store

\* a warm wake that does not count itself
Booted_KeepsCount(reason) ==
    IF reason = "Deep-Sleep Wake" THEN readFromRTCMemory(rtc) ELSE rtcStore0

\* a warm wake that asks the network whatever the last cycle decided
Booted_AlwaysNTP(reason) ==
    IF reason = "Deep-Sleep Wake"
    THEN [readFromRTCMemory(rtc) EXCEPT !.iterations = @ + 1, !.syncType = "NTP"]
    ELSE rtcStore0

\* rtcMem as lines 93-109 leave it
Booted(reason) ==
    IF reason = "Deep-Sleep Wake"
    THEN [readFromRTCMemory(rtc) EXCEPT !.iterations = @ + 1]
    ELSE rtcStore0

\* the counts at the start of a wake
Started(reason) ==
    LET warm == reason = "Deep-Sleep Wake"
        estimate == Booted(reason).syncType = "Estimate"
    IN  [warm |-> IF warm THEN hist.warm + 1 ELSE 0,
         renders |-> 0,
         saves |-> 0,
         estimates |-> IF estimate THEN hist.estimates + 1 ELSE 0,
         gap |-> IF warm /\ ~estimate THEN hist.estimates ELSE 0,
         anchors |-> IF warm THEN hist.anchors ELSE 0]

\* void setup(): lines 85-113. RAM starts afresh at every boot: TimeLib's
\* sysTime is 0 and its status timeNotSet when setSyncProvider() calls now().
setup(reason, reply) ==
    /\ (reason = "Deep-Sleep Wake") => (pc = "asleep")
    /\ resetReason' = reason
    /\ wake' = Booted(reason)
    /\ SyncNow(Booted(reason), 0, "timeNotSet", 1, reply, Started(reason))
    /\ sleepReq' = NoSleep
    /\ UNCHANGED rtc

----------------------------------------------------------------------------
(* loop() *)

\* seconds now() counts between two calls of loop() while the clock is not set
IdleSecs == {syncInterval \div 2}

\* uint64_t USeconds = <double>: the conversion of line 143. A negative double
\* has no defined conversion to uint64_t: the build may wrap it modulo 2^64 or
\* modulo 2^32, or give 0. The value is 2^wrap + low when wrap > 0, else low.
ToUint64(micros) ==
    IF micros >= 0
    THEN {[wrap |-> 0, low |-> micros]}
    ELSE {[wrap |-> 64, low |-> micros], [wrap |-> 32, low |-> micros],
          [wrap |-> 0, low |-> 0]}

\* a write that stops short of the last field of the record
writeToRTCMemory_Truncated(mem) ==
    [mem EXCEPT !.driftPerMinute = rtc.driftPerMinute]

\* writeToRTCMemory(): system_rtc_mem_write() copies the sizeof(rtcMem) bytes of
\* rtcMem to RTC memory (lines 306-312); yields what the memory then holds
writeToRTCMemory(mem) == mem

\* a correction scaled by the fraction of the minute slept
SleepMicros_Scaled(sleepSeconds, driftPerMinute) ==
    sleepSeconds * 1000000 - CDiv(driftPerMinute * sleepSeconds, 60)

\* a correction with the opposite sign
SleepMicros_Adding(sleepSeconds, driftPerMinute) ==
    sleepSeconds * 1000000 + driftPerMinute

\* line 143: sleepSeconds * 1E6 - rtcMem.driftPerMinute (exact in double here)
SleepMicros(sleepSeconds, driftPerMinute) ==
    sleepSeconds * 1000000 - driftPerMinute

\* a re-anchor asked for as soon as the interval is reached
NeedsNTP_NonStrict(t, mem) == (t - mem.lastNTP) >= NTP_INTERVAL(mem)

\* a re-anchor asked for by the time since the wake instead of since the anchor
NeedsNTP_SinceWake(t, mem) == (t - mem.wakeTime) > NTP_INTERVAL(mem)

\* line 124: will the next wake be an NTP request?
NeedsNTP(t, mem) == (t - mem.lastNTP) > NTP_INTERVAL(mem)

\* lines 119-148 with the clock set. d, t1, t2: the seconds now() counts up to
\* line 124, between lines 124 and 138, and between lines 138 and 139.
LoopSet(d, t1, t2) ==
    LET now124 == sysTime + d
        now138 == now124 + t1
        now139 == now138 + t2
        ntp == NeedsNTP(now124, rtcMem)
        sleepSeconds == 60 - second(now138)
        mem == [rtcMem EXCEPT !.syncType = IF ntp THEN "NTP" ELSE "Estimate",
                              !.wakeTime = now139 + sleepSeconds]
        micros == SleepMicros(sleepSeconds, mem.driftPerMinute)
    IN  /\ rtcMem' = mem
        /\ rtc' = writeToRTCMemory(mem)
        /\ hist' = [hist EXCEPT !.renders = @ + 1, !.saves = @ + 1]
        /\ sysTime' = now139
        /\ \E u \in ToUint64(micros) :
              sleepReq' = [sleepSeconds |-> sleepSeconds, now124 |-> now124,
                           micros |-> micros, wrap |-> u.wrap, USeconds |-> u.low,
                           mode |-> IF ntp THEN "WAKE_RF_DEFAULT"
                                    ELSE "WAKE_RF_DISABLED"]
        /\ pc' = "asleep"
        /\ UNCHANGED <<resetReason, nextSyncTime, Status, wake, query>>

\* line 119 with the clock not set: timeStatus() calls now(), which counts the
\* d seconds gone by and asks the provider again once nextSyncTime is reached.
LoopNotSet(d, reply) ==
    LET t == sysTime + d
    IN  /\ IF nextSyncTime <= t
           THEN /\ query.n <= MaxRetries
                /\ SyncNow(rtcMem, t, Status, query.n + 1, reply, hist)
           ELSE /\ sysTime' = t
                /\ UNCHANGED <<pc, rtcMem, nextSyncTime, Status, query, hist>>
        /\ UNCHANGED <<resetReason, rtc, sleepReq, wake>>

\* a loop that does not wait for the clock to be set
loop_Ungated(d, t1, t2, reply) ==
    /\ pc = "awake"
    /\ LoopSet(d, t1, t2)

\* void loop(): lines 115-150
loop(d, t1, t2, reply) ==
    /\ pc = "awake"
    /\ IF Status # "timeNotSet"
       THEN LoopSet(d, t1, t2)
       ELSE LoopNotSet(d, reply)

----------------------------------------------------------------------------
(* The device in its environment *)

WakeUp ==
    \E reason \in ResetReasons :
       /\ (reason = "Deep-Sleep Wake") => (rtc.iterations < MaxIter)
       /\ \E reply \in Replies(Booted(reason), 0) : setup(reason, reply)
       /\ UNCHANGED world

Refresh ==
    /\ Status # "timeNotSet"
    /\ \E d \in DisplaySecs, t1 \in Ticks, t2 \in Ticks :
          loop(d, t1, t2, Silence)
    /\ UNCHANGED world

Wait ==
    /\ Status = "timeNotSet"
    /\ \E d \in IdleSecs :
          /\ sysTime + d <= nextSyncTime
          /\ \E reply \in (IF nextSyncTime <= sysTime + d
                           THEN Replies(rtcMem, sysTime + d)
                           ELSE {Silence}) :
                loop(d, 0, 0, reply)
    /\ UNCHANGED world

Next == WakeUp \/ Refresh \/ Wait

Spec == Init /\ [][Next]_vars

----------------------------------------------------------------------------
(* The drift update on its own: a device asleep with an NTP cycle due, woken  *)
(* once, with replies that also include a repeated and an out-of-order time.  *)

\* the state in which a cycle that saved mem and slept left the device
Asleep(mem) ==
    LET before == [mem EXCEPT !.wakeTime = mem.wakeTime - 60,
                              !.syncType = "Estimate"]
        micros == SleepMicros(58, mem.driftPerMinute)
    IN  /\ pc = "asleep"
        /\ resetReason = "Deep-Sleep Wake"
        /\ rtc = mem
        /\ rtcMem = mem
        /\ sysTime = mem.wakeTime - 58
        /\ nextSyncTime = before.wakeTime + syncInterval
        /\ Status = "timeSet"
        /\ sleepReq = [sleepSeconds |-> 58, now124 |-> mem.wakeTime - 58,
                       micros |-> micros, wrap |-> 0, USeconds |-> micros,
                       mode |-> IF mem.syncType = "NTP" THEN "WAKE_RF_DEFAULT"
                                ELSE "WAKE_RF_DISABLED"]
        /\ wake = before
        /\ query = [n |-> 1, reply |-> Silence, pre |-> before,
                    ret |-> before.wakeTime]
        /\ hist = [warm |-> mem.iterations, renders |-> 1, saves |-> 1,
                   estimates |-> (mem.wakeTime - mem.lastNTP) \div 60, gap |-> 0,
                   anchors |-> 1]
        /\ world = NoWorld

\* previous anchor and predicted wake time: 8 hours apart (the worked example
\* of the design notes), 11 minutes apart (the first calibration), and 3 and 7
\* days apart
AnchorCases ==
    {[lastNTP |-> 1700000000, wakeTime |-> 1700028795],
     [lastNTP |-> 1700000000, wakeTime |-> 1700000700],
     [lastNTP |-> 1700000000, wakeTime |-> 1700259200],
     [lastNTP |-> 1700000000, wakeTime |-> 1700604800]}

DriftCases == {-18000, 0, 2000}

IterationCases == {11, 491}

\* seconds by which a reply is behind the previous anchor
StaleSecs == {0, 3600}

\* Stale replies are taken for a device that woke within a day of its anchor.
\* Days after the anchor such a reply puts the drift beyond 35,791,394 ms, where
\* 60 * drift is no value of a long: not a case the model computes.
StaleFor(mem) ==
    IF mem.wakeTime - mem.lastNTP < 86400 THEN StaleSecs ELSE {}

\* seconds by which a reply is ahead of the predicted wake time after days of
\* a drift of up to a second per minute
LateSecs == {-10070, 4315, 10070}

AnyReplies(mem) ==
    Replies(mem, 0) \cup
    {Reply(NTP_PACKET_SIZE, mem.lastNTP - s, millis, dz) :
        s \in StaleFor(mem), millis \in QueryMillis, dz \in DivByZero} \cup
    {Reply(NTP_PACKET_SIZE, mem.wakeTime + s, millis, Trap) :
        s \in LateSecs, millis \in QueryMillis}

InitDrift ==
    \E a \in AnchorCases, dr \in DriftCases, i \in IterationCases :
       Asleep([wakeTime |-> a.wakeTime, lastNTP |-> a.lastNTP, syncType |-> "NTP",
               iterations |-> i, driftPerMinute |-> dr])

Anchor ==
    \E reply \in AnyReplies(Booted("Deep-Sleep Wake")) :
       setup("Deep-Sleep Wake", reply)
    /\ UNCHANGED world

SpecDrift == InitDrift /\ [][Anchor]_vars

----------------------------------------------------------------------------
(* The end of a cycle on its own: a device awake with its clock set, for      *)
(* every second of the minute and for drift corrections up to +-5000 ms/min.  *)

\* the state in which setup() left a device that loaded mem and set its clock to t
Awake(mem, t) ==
    /\ pc = "awake"
    /\ resetReason = "Deep-Sleep Wake"
    /\ rtc = [mem EXCEPT !.iterations = mem.iterations - 1, !.lastNTP = 1700000000]
    /\ rtcMem = mem
    /\ sysTime = t
    /\ nextSyncTime = t + syncInterval
    /\ Status = "timeSet"
    /\ sleepReq = NoSleep
    /\ wake = [mem EXCEPT !.lastNTP = 1700000000]
    /\ query = [n |-> 1,
                reply |-> IF mem.syncType = "NTP"
                          THEN Reply(NTP_PACKET_SIZE, t, 200, Trap) ELSE Silence,
                pre |-> [mem EXCEPT !.lastNTP = 1700000000],
                ret |-> t]
    /\ hist = [warm |-> mem.iterations, renders |-> 0, saves |-> 0,
               estimates |-> IF mem.syncType = "NTP" THEN 0 ELSE 1,
               gap |-> IF mem.syncType = "NTP" THEN 1 ELSE 0,
               anchors |-> IF mem.syncType = "NTP" THEN 2 ELSE 1]
    /\ world = NoWorld

DriftRange == {-5000000, -1000001, 0, 2000, 999999, 1000001, 5000000}

\* seconds since the last anchor, around the two re-anchor thresholds
ElapsedCases == {599, 600, 601, 28799, 28800, 28801}

IterationsAtLoop == {11, 12}

InitLoop ==
    \E dr \in DriftRange, i \in IterationsAtLoop :
       \/ \E s \in 0..59 :
             Awake([wakeTime |-> 1700028780, lastNTP |-> 1700028780 + s,
                    syncType |-> "NTP", iterations |-> i, driftPerMinute |-> dr],
                   1700028780 + s)
       \/ \E back \in ElapsedCases :
             Awake([wakeTime |-> 1700028780, lastNTP |-> 1700028780 - back,
                    syncType |-> "Estimate", iterations |-> i,
                    driftPerMinute |-> dr],
                   1700028780)

SpecLoop == InitLoop /\ [][Refresh]_vars

----------------------------------------------------------------------------
(* The device on a test bench, run for days: after a cold start every NTP     *)
(* request is answered with the true time, every cycle stays awake for the    *)
(* same whole number of seconds after it has read the time, and the timer of  *)
(* ESP.deepSleep() runs with a constant skew. The time from a wake to the     *)
(* moment an estimate cycle sets its clock counts as part of the skew.        *)

\* the true time us microseconds after w (us >= 0)
Later(w, us) ==
    LET total == w.micros + us
    IN  [w EXCEPT !.secs = @ + total \div 1000000, !.micros = total % 1000000]

\* microseconds that a deep sleep asked to last us microseconds does last, with
\* a timer on which a minute lasts skew microseconds longer
Slept(us, skew) == us + CDiv(skew * (us \div 1000), 60000)

\* the benches: seconds awake, skew, milliseconds to the NTP reply, and the true
\* time of the reply of the cold start
RunCases ==
    {[awake |-> 0, skew |-> 12000, millis |-> 200,
      secs |-> 1700000000, micros |-> 0],
     [awake |-> 0, skew |-> 0, millis |-> 975,
      secs |-> 1700000038, micros |-> 1],
     [awake |-> 2, skew |-> -3000, millis |-> 975,
      secs |-> 1700000002, micros |-> 999999],
     [awake |-> 2, skew |-> 5000, millis |-> 200,
      secs |-> 1700000038, micros |-> 500000],
     [awake |-> MaxDisplaySecs, skew |-> 12000, millis |-> 975,
      secs |-> 1700000038, micros |-> 500000],
     [awake |-> 30, skew |-> 0, millis |-> 200,
      secs |-> 1700000002, micros |-> 0],
     [awake |-> 40, skew |-> 0, millis |-> 200,
      secs |-> 1700000002, micros |-> 0]}

InitRun == PoweredOff /\ world \in RunCases

Start ==
    /\ pc = "off"
    /\ setup("External System",
             Reply(NTP_PACKET_SIZE, world.secs, world.millis, Trap))
    /\ UNCHANGED world

\* the deep sleep ends: the reset after the time the timer took, then setup()
Resume ==
    /\ pc = "asleep"
    /\ rtc.iterations < MaxRun
    /\ sleepReq.wrap = 0
    /\ LET woken == Later(world, Slept(sleepReq.USeconds, world.skew))
           asked == IF rtc.syncType = "NTP"
                    THEN Later(woken, world.millis * 1000) ELSE woken
           reply == IF rtc.syncType = "NTP"
                    THEN Reply(NTP_PACKET_SIZE, asked.secs, world.millis, Trap)
                    ELSE Silence
       IN  /\ setup("Deep-Sleep Wake", reply)
           /\ world' = asked

Render ==
    /\ Status # "timeNotSet"
    /\ loop(world.awake, 0, 0, Silence)
    /\ world' = Later(world, world.awake * 1000000)

NextRun == Start \/ Resume \/ Render

SpecRun == InitRun /\ [][NextRun]_vars

----------------------------------------------------------------------------
(* Properties *)

\* the last query of this wake asked the network and got no usable packet
QueryFailed ==
    /\ query.n > 0
    /\ query.pre.syncType = "NTP"
    /\ query.reply.size < 48

\* the last query of this wake asked the network and got a reply
QueryReplied ==
    /\ query.n > 0
    /\ query.pre.syncType = "NTP"
    /\ query.reply.size >= 48

\* this step is the boot of a warm wake cycle
WarmBoot == pc = "asleep" /\ pc' # "asleep" /\ resetReason' = "Deep-Sleep Wake"

\* this step ends a warm wake cycle with ESP.deepSleep()
WarmSuspend == pc = "awake" /\ pc' = "asleep" /\ resetReason = "Deep-Sleep Wake"

\* C1: in warm wake cycles that run with syncType = Estimate, driftPerMinute and
\* lastNTP are carried through unchanged, from the record held in RTC memory to
\* the record written back: the boot only increments iterations, and the end of
\* the cycle only moves wakeTime forward and re-decides syncType.
C1_EstimateCyclesKeepDriftAndAnchor ==
    [][ /\ (WarmBoot /\ rtc.syncType = "Estimate")
           => /\ rtcMem' = [rtc EXCEPT !.iterations = rtc.iterations + 1]
              /\ rtc' = rtc
        /\ (WarmSuspend /\ wake.syncType = "Estimate")
           => /\ rtc'.driftPerMinute = wake.driftPerMinute
              /\ rtc'.lastNTP = wake.lastNTP
              /\ rtc'.iterations = wake.iterations
              /\ rtc'.wakeTime > wake.wakeTime
              /\ rtc'.syncType \in Sync
      ]_vars

\* C1 witness: asleep after at least two estimate cycles in a row that carried a
\* calibrated (non-zero) drift
C1_Witness ==
    /\ pc = "asleep"
    /\ resetReason = "Deep-Sleep Wake"
    /\ wake.syncType = "Estimate"
    /\ rtc.driftPerMinute # 0
    /\ rtc.wakeTime - rtc.lastNTP > 120

\* C2: whenever driftPerMinute differs from the value it had at wake, the cycle
\* ran in NTP mode, its query got a reply, and lastNTP was non-zero before that
\* query; and the record saved at suspend carries the driftPerMinute of rtcMem.
C2_DriftChangesOnlyOnAnchoredReply ==
    /\ (rtcMem.driftPerMinute # wake.driftPerMinute)
          => /\ wake.syncType = "NTP"
             /\ QueryReplied
             /\ query.pre.lastNTP # 0
    /\ (pc = "asleep") => (rtc.driftPerMinute = rtcMem.driftPerMinute)

\* C2 witness: a suspended cycle that changed driftPerMinute
C2_Witness ==
    /\ pc = "asleep"
    /\ rtc.driftPerMinute # wake.driftPerMinute

\* C7: wakeTime is always a minute boundary of the device's time
C7_WakeTimeOnMinuteBoundary ==
    /\ rtcMem.wakeTime % 60 = 0
    /\ rtc.wakeTime % 60 = 0

\* C8: after a query that timed out the engine has fallen back to the estimate
\* (the clock is set to the predicted wake time, so the cycle goes on to render,
\* save and suspend), and no further query is made in the same cycle
C8_TimeoutFallsBackToEstimate ==
    (QueryFailed /\ pc = "awake" /\ resetReason = "Deep-Sleep Wake")
       => /\ Status # "timeNotSet"
          /\ sysTime >= rtcMem.wakeTime
          /\ query.n = 1

\* C9: a failed query leaves every field of rtcMem as it was before the query
\* and returns the zero sentinel
C9_FailedQueryChangesNothing ==
    QueryFailed
       => /\ rtcMem = query.pre
          /\ query.ret = 0

\* C9 witness: a failed query in a warm cycle with a calibrated state
C9_Witness ==
    /\ QueryFailed
    /\ pc = "awake"
    /\ query.pre.lastNTP > 0
    /\ query.pre.iterations > 0

\* C10 as stated: the correction is the full driftPerMinute for a 60 s sleep and
\* the proportional fraction driftPerMinute * secondsToBoundary / 60 otherwise
\* (whichever way the fraction is rounded)
C10_CorrectionIsProportional ==
    (pc = "asleep")
       => LET correction == sleepReq.sleepSeconds * 1000000 - sleepReq.micros
          IN  IF sleepReq.sleepSeconds = 60
              THEN correction = rtc.driftPerMinute
              ELSE Abs(60 * correction - rtc.driftPerMinute * sleepReq.sleepSeconds)
                       < 60

\* C10 amended: the planner always subtracts the full driftPerMinute, whatever
\* secondsToBoundary is, and the duration passed to deep sleep is that
\* difference whenever it is not negative
C10_CorrectionIsFullDrift ==
    (pc = "asleep")
       => /\ sleepReq.sleepSeconds \in 1..60
          /\ sleepReq.micros =
                sleepReq.sleepSeconds * 1000000 - rtc.driftPerMinute
          /\ (sleepReq.micros >= 0)
                => (sleepReq.wrap = 0 /\ sleepReq.USeconds = sleepReq.micros)

\* C10 witness: a partial-minute sleep with a non-zero drift correction
C10_Witness ==
    /\ pc = "asleep"
    /\ sleepReq.sleepSeconds < 60
    /\ rtc.driftPerMinute # 0
    /\ sleepReq.USeconds = sleepReq.sleepSeconds * 1000000 - rtc.driftPerMinute

\* truncating quotient of the drift formula, a / b for b > 0
Quot(a, b) == IF a >= 0 THEN a \div b ELSE -((-a) \div b)

\* C4: a reply that follows a previous anchor by a positive interval adds
\* 1000 * ((60 * ((ntpTime - wakeTime) * 1000 - millis)) / interval) to the
\* old driftPerMinute; the worked example gives 2000 + 10000 = 12000.
C4_DriftIncrementIsAdded ==
    (QueryReplied /\ query.n = 1 /\ pc = "awake" /\ query.pre.lastNTP > 0
       /\ query.reply.ntpTime - query.pre.lastNTP > 0)
       => /\ rtcMem.driftPerMinute =
                query.pre.driftPerMinute
                + 1000 * Quot(60 * ((query.reply.ntpTime - query.pre.wakeTime) * 1000
                                    - query.reply.millis),
                              query.reply.ntpTime - query.pre.lastNTP)
          /\ (/\ query.pre.lastNTP = 1700000000
              /\ query.reply.ntpTime = 1700028800
              /\ query.pre.wakeTime = 1700028795
              /\ query.reply.millis = 200
              /\ query.pre.driftPerMinute = 2000)
                => rtcMem.driftPerMinute = 12000

\* C4 witness: the worked example has been computed
C4_Witness ==
    /\ pc = "awake"
    /\ QueryReplied
    /\ query.pre.lastNTP = 1700000000
    /\ query.reply.ntpTime = 1700028800
    /\ query.pre.wakeTime = 1700028795
    /\ query.reply.millis = 200
    /\ query.pre.driftPerMinute = 2000
    /\ rtcMem.driftPerMinute = 12000

\* C5: a reply whose time is not later than the previous anchor skips the drift
\* update: no division by zero, driftPerMinute unchanged, lastNTP set to the reply
C5_NonPositiveIntervalSkipsUpdate ==
    (QueryReplied /\ query.pre.lastNTP > 0
       /\ query.reply.ntpTime - query.pre.lastNTP <= 0)
       => /\ pc # "fault"
          /\ rtcMem.driftPerMinute = query.pre.driftPerMinute
          /\ rtcMem.lastNTP = query.reply.ntpTime

\* C3: for driftPerMinute within +-5,000,000 us and secondsToBoundary in 1..60
\* the duration computed and passed to deep sleep is never negative, nor a
\* negative value wrapped into an unsigned one
C3_SleepDurationNonNegative ==
    (pc = "asleep" /\ rtc.driftPerMinute \in -5000000..5000000
       /\ sleepReq.sleepSeconds \in 1..60)
       => /\ sleepReq.micros >= 0
          /\ sleepReq.wrap = 0
          /\ sleepReq.USeconds >= 0

ColdBoot == resetReason' # "Deep-Sleep Wake" /\ hist'.renders = 0 /\ query'.n = 1

\* C12: iterations is 0 after a cold start and one more than the stored count
\* after a warm wake, and no other step changes it; it only becomes 0 again by a
\* cold start; so it always equals the number of warm wakes since the last cold
\* start, also in the record saved at suspend.
C12_IterationsCountWarmWakes ==
    [][ /\ rtcMem'.iterations = hist'.warm
        /\ (pc' = "asleep") => (rtc'.iterations = hist'.warm)
        /\ WarmBoot => /\ rtcMem'.iterations = rtc.iterations + 1
                       /\ rtcMem'.iterations = rtcMem.iterations + 1
        /\ (rtcMem'.iterations < rtcMem.iterations)
              => (ColdBoot /\ rtcMem'.iterations = 0)
        /\ (rtcMem'.iterations # rtcMem.iterations) => (WarmBoot \/ ColdBoot)
      ]_vars

\* C12 witness: the thirteenth warm wake in a row has counted itself
C12_Witness ==
    /\ pc = "awake"
    /\ resetReason = "Deep-Sleep Wake"
    /\ hist.warm = 13
    /\ rtcMem.iterations = 13
    /\ rtc.iterations = 12

\* C13: a cycle writes RTC memory once, in the step that suspends it, and what
\* RTC memory holds at suspend is the record rtcMem holds at suspend; RTC memory
\* changes at no other step; the record a warm wake works with is, but for the
\* incremented iterations, the record the suspended cycle held.
C13_SavedOnceAndLoadedAsSuspended ==
    [][ /\ (pc' = "asleep") => (hist'.saves = 1 /\ rtc' = rtcMem')
        /\ (pc' # "asleep") => (hist'.saves = 0)
        /\ (rtc' # rtc) => (pc = "awake" /\ pc' = "asleep")
        /\ WarmBoot => /\ wake' = [rtcMem EXCEPT !.iterations = @ + 1]
                       /\ rtc' = rtc
      ]_vars

\* C13 witness: a warm cycle has saved a calibrated record and suspended
C13_Witness ==
    /\ pc = "asleep"
    /\ resetReason = "Deep-Sleep Wake"
    /\ hist.saves = 1
    /\ rtc = rtcMem
    /\ rtc.driftPerMinute # 0
    /\ rtc.driftPerMinute # wake.driftPerMinute

\* C14: a warm cycle wakes with, and asks for the time in, the syncType that the
\* cycle before it decided and saved; a cold cycle does so with NTP; a cycle keeps
\* that syncType until it decides the next one; and at every suspend the wake
\* mode asked for is WAKE_RF_DEFAULT exactly when the saved syncType is NTP and
\* WAKE_RF_DISABLED exactly when it is Estimate.
C14_SyncTypeDecidedByPreviousCycle ==
    [][ /\ WarmBoot => /\ rtc.syncType = rtcMem.syncType
                       /\ wake'.syncType = rtc.syncType
                       /\ query'.pre.syncType = rtc.syncType
        /\ (resetReason' = "External System")
              => (wake'.syncType = "NTP" /\ query'.pre.syncType = "NTP")
        /\ (pc' = "awake") => (rtcMem'.syncType = wake'.syncType)
        /\ (pc' = "asleep")
              => /\ (sleepReq'.mode = "WAKE_RF_DEFAULT") <=> (rtc'.syncType = "NTP")
                 /\ (sleepReq'.mode = "WAKE_RF_DISABLED")
                       <=> (rtc'.syncType = "Estimate")
      ]_vars

\* C14 witness: an estimate cycle has decided NTP for the next cycle and suspended
C14_Witness ==
    /\ pc = "asleep"
    /\ resetReason = "Deep-Sleep Wake"
    /\ wake.syncType = "Estimate"
    /\ rtc.syncType = "NTP"
    /\ sleepReq.mode = "WAKE_RF_DEFAULT"

\* C15: while the clock is not set, loop() has rendered nothing, decided nothing
\* (rtcMem has the syncType and wakeTime of the wake), saved nothing and asked
\* for no sleep; a cycle that has rendered, saved or suspended has its clock set
\* by a query that returned a time.
C15_NothingBeforeTimeIsSet ==
    /\ (Status = "timeNotSet")
          => /\ hist.renders = 0
             /\ hist.saves = 0
             /\ sleepReq = NoSleep
             /\ pc # "asleep"
             /\ rtcMem.syncType = wake.syncType
             /\ rtcMem.wakeTime = wake.wakeTime
    /\ (hist.renders > 0 \/ hist.saves > 0 \/ pc = "asleep")
          => /\ Status # "timeNotSet"
             /\ query.ret # 0

\* C15 witness: a warm cycle whose query and retry both failed is still awake
\* with nothing rendered or saved
C15_Witness ==
    /\ pc = "awake"
    /\ resetReason = "Deep-Sleep Wake"
    /\ Status = "timeNotSet"
    /\ query.n = 2
    /\ hist.renders = 0
    /\ rtc.wakeTime = wake.wakeTime

C20_AnchoredCycleSchedulesEstimate ==
    /\ (pc = "asleep" /\ QueryReplied)
          => /\ rtc.syncType = "Estimate"
             /\ sleepReq.mode = "WAKE_RF_DISABLED"
    /\ (resetReason = "Deep-Sleep Wake" /\ QueryReplied) => (hist.gap >= 1)

\* C20 witness: a warm cycle that re-anchored has suspended
C20_Witness ==
    /\ pc = "asleep"
    /\ resetReason = "Deep-Sleep Wake"
    /\ QueryReplied
    /\ hist.anchors = 2
    /\ rtc.syncType = "Estimate"

\* C18: the estimate cycles in a row never number more than threshold / 60 + 1
\* for the threshold in force (11 while iterations < 12, 481 afterwards): every
\* estimate cycle wakes at least a minute of device time after the one before
\* while lastNTP stays where it was, and the last cycle the bound allows saves
\* syncType = NTP
C18_EstimateCyclesInARowAreBounded ==
    LET threshold == IF rtcMem.iterations < 12 THEN 600 ELSE 28800
    IN  /\ hist.estimates <= threshold \div 60 + 1
        /\ (wake.syncType = "Estimate")
              => /\ rtcMem.lastNTP = wake.lastNTP
                 /\ wake.wakeTime - wake.lastNTP >= 60 * (hist.estimates - 1) + 1
        /\ (pc = "asleep" /\ hist.estimates = threshold \div 60 + 1)
              => (rtc.syncType = "NTP" /\ sleepReq.mode = "WAKE_RF_DEFAULT")

\* C18 witness: the 481st estimate cycle in a row has asked for NTP and suspended
C18_Witness ==
    /\ pc = "asleep"
    /\ hist.estimates = 481
    /\ hist.anchors >= 2
    /\ rtc.syncType = "NTP"

\* what C19 says of the third and later replies: they come after iteration 12
\* and more than the long threshold after the anchor before
LaterSyncsByLongThreshold ==
    (wake.syncType = "NTP" /\ hist.anchors >= 3)
       => /\ wake.iterations > 12
          /\ wake.wakeTime - wake.lastNTP > 28800

\* C19 as stated: with cycles awake for less than a minute, the second reply
\* since the cold start comes at iteration 11 or 12, and every later one is
\* governed by the long threshold
C19_SecondSyncAtIteration11Or12 ==
    /\ (wake.syncType = "NTP" /\ hist.anchors = 2 /\ world.awake < 60)
          => wake.iterations \in {11, 12}
    /\ LaterSyncsByLongThreshold

\* C19 amended: the second reply since the cold start comes at iteration 10, 11
\* or 12, and at 11 or 12 when no cycle is awake for more than 30 seconds; every
\* later one is governed by the long threshold
C19_SecondSyncAtIteration10To12 ==
    /\ (wake.syncType = "NTP" /\ hist.anchors = 2 /\ world.awake < 60)
          => /\ wake.iterations \in {10, 11, 12}
             /\ (world.awake <= 30) => (wake.iterations \in {11, 12})
    /\ LaterSyncsByLongThreshold

\* C19 witness: on the bench that is awake 40 seconds of every minute the third
\* reply has come, after a second reply at iteration 10
C19_Witness ==
    /\ wake.syncType = "NTP"
    /\ hist.anchors = 3
    /\ world.awake = 40
    /\ wake.iterations = 491
    /\ pc = "asleep"

\* C11: on a bench that is awake for the time of a display refresh, from the
\* second drift update on (the third reply since the cold start) driftPerMinute
\* stays within 3000 microseconds per minute of the skew of the sleep timer
C11_DriftConvergesToSkew ==
    (hist.anchors >= 3 /\ world.awake <= MaxDisplaySecs)
       => Abs(rtcMem.driftPerMinute - world.skew) <= 3000

\* C11 witness: after the fourth drift update on a bench with a skew of 12000
\* microseconds per minute
C11_Witness ==
    /\ hist.anchors = 5
    /\ world.skew = 12000
    /\ world.awake <= MaxDisplaySecs
    /\ Abs(rtcMem.driftPerMinute - world.skew) <= 3000

\* whether a * b is a value of a 32-bit long
MulFits(a, b) == (b = 0) \/ (Abs(a) <= 2147483647 \div Abs(b))

\* C17: in a drift update over a positive interval of up to 7 days every
\* intermediate value is a value of its type: driftSeconds * 1000, the
\* difference with the elapsed milliseconds, 60 * driftMillis and
\* 1000 * quotient as 32-bit longs, the sum with the old correction as a
\* 64-bit integer; and the result is the old correction plus
\* 1000 * ((60 * driftMillis) / interval), the product by 60 taken first
C17_DriftUpdateStaysInRange ==
    LET seconds == query.reply.ntpTime - query.pre.wakeTime
        driftMillis == seconds * 1000 - query.reply.millis
        interval == query.reply.ntpTime - query.pre.lastNTP
        quotient == Quot(60 * driftMillis, interval)
    IN  (QueryReplied /\ query.n = 1 /\ pc = "awake" /\ query.pre.lastNTP > 0
           /\ interval \in 1..(7 * 86400 + 10070))
           => /\ MulFits(seconds, 1000)
              /\ query.reply.millis >= 0
              /\ seconds * 1000 >= query.reply.millis - 2147483647
              /\ MulFits(60, driftMillis)
              /\ MulFits(1000, quotient)
              /\ Abs(query.pre.driftPerMinute) <= 2147483647
              /\ rtcMem.driftPerMinute
                    = query.pre.driftPerMinute + 1000 * quotient

\* C17 witness: an update after 7 days in which the clock was 10070 s behind,
\* a drift of 999 ms per minute
C17_Witness ==
    /\ pc = "awake"
    /\ QueryReplied
    /\ query.pre.lastNTP = 1700000000
    /\ query.pre.wakeTime = 1700604800
    /\ query.reply.ntpTime = 1700614870
    /\ query.reply.millis = 200
    /\ query.pre.driftPerMinute = 2000
    /\ rtcMem.driftPerMinute = 2000 + 1000 * 982

====
